---- MODULE Spec2Model ----
(***************************************************************************)
(* A model of the DroneDrillers grid engine: the clamping Counter          *)
(* (utils/counter.py), the actors (units/ally), and the MapData engine     *)
(* exported by utils (utils/map_data.py).                                  *)
(*                                                                         *)
(* Python exceptions are modelled by the `err` field of the state an       *)
(* operation returns: the statements before the raise have taken effect,   *)
(* the statements after it have not.                                       *)
(***************************************************************************)
EXTENDS Integers, Sequences, FiniteSets, TLC

VARIABLES
    c_value,        \* Counter: the IntVar's value (get())
    c_start,        \* Counter._start
    c_max,          \* Counter._max_value
    c_last,         \* Counter: the last method called and the value before it
    icon,           \* MapData._all_tiles[y][x].icon, by coordinate
    discovered,     \* MapData._all_tiles[y][x].discovered
    minerals,       \* MapData._total_minerals
    acid,           \* MapData._acid
    landing_zone,   \* MapData._landing_zone
    health,         \* Atron._health, by actor
    payload,        \* Atron._payload / Drone._payload, by actor
    context,        \* Atron._context / Drone._context, by actor
    last,           \* the last engine call: its name, arguments and outcome
    looked,         \* the last lookup in the map: its key, default and outcome
    tile,           \* one Tile: _surface, _terrain, _discovered, _occupation
    tile_last,      \* the last call on the Tile, its outcome and the Tile before
    maze,           \* the Overlord's _mining_map: the tile icons, by coordinate
    route,          \* a path request: start, end and what _dijkstra answered
    built,          \* a Counter construction: its arguments and its outcome
    trip,           \* a Coordinate translated step by step from where it began
    stay,           \* the moves the miner has made in a row standing on acid
    task,           \* the Overlord's mineral sets and the miner it tasks
    gen             \* a map under generation by MapData._no_file

vars == <<c_value, c_start, c_max, c_last, icon, discovered, minerals, acid,
          landing_zone, health, payload, context, last, looked, tile,
          tile_last, maze, route, built, trip, stay, task, gen>>

counterVars == <<c_value, c_start, c_max, c_last>>

engineVars == <<icon, discovered, minerals, acid, landing_zone, health,
                payload, context, last, stay>>

lookupVars == <<looked>>

tileVars == <<tile, tile_last>>

pathVars == <<maze, route>>

pureVars == <<built, trip>>

taskVars == <<task>>

genVars == <<gen>>

(***************************************************************************)
(* Bounds of the model.                                                    *)
(***************************************************************************)
\* largest start / max value a Counter is constructed with
MaxCounter == 4
\* largest absolute argument passed to Counter.set / Counter.count
MaxArg == 6
\* largest deposit on the map
MaxUnits == 2
\* how far below zero a ledger entry may be driven before the model stops
MaxOverdraft == 1
\* how far past the last valid index, on either side, a looked-up key lies
MaxBeyond == 1
\* most walls inside the pathfinder's map
MaxObstacles == 2
\* most acid tiles inside the pathfinder's map
MaxAcid == 1
\* largest absolute component of the Coordinate a trip begins at
MaxCoord == 3
\* most translations in a trip
MaxSteps == 2

(***************************************************************************)
(* utils/counter.py                                                        *)
(***************************************************************************)
DEFAULT_VALUE == -1

\* the value Counter.set stores
CounterClamp_NoUpper(max_value, value) ==
    IF value < 0 THEN 0 ELSE value

CounterClamp(max_value, value) ==
    IF value < 0 THEN 0
    ELSE IF max_value # DEFAULT_VALUE /\ value > max_value THEN max_value
    ELSE value

\* a Counter object: [value, start, max_value]
NewCounter(value, max_value) ==
    [value |-> value, start |-> value, max_value |-> max_value]

CounterSet(c, value) == [c EXCEPT !.value = CounterClamp(c.max_value, value)]

CounterCount(c, value) == CounterSet(c, c.value + value)

CounterReset_ToZero(c) == CounterSet(c, 0)

CounterReset(c) == CounterSet(c, c.start)

\* an optional int argument: None, or the int n
None == [given |-> FALSE, n |-> 0]

Given(n) == [given |-> TRUE, n |-> n]

\* Counter.__init__(value=value, max_value=max_value): the exception raised,
\* or the Counter made
counter_init_NoMaxCheck(value, max_value) ==
    IF value.given /\ value.n < 0
    THEN [err |-> "ValueError", counter |-> NewCounter(0, DEFAULT_VALUE)]
    ELSE [err |-> "none",
          counter |-> NewCounter(IF value.given THEN value.n ELSE 0,
                                 IF max_value.given THEN max_value.n
                                 ELSE DEFAULT_VALUE)]

counter_init(value, max_value) ==
    IF value.given /\ value.n < 0
    THEN [err |-> "ValueError", counter |-> NewCounter(0, DEFAULT_VALUE)]
    ELSE LET start == IF value.given THEN value.n ELSE 0
         IN  IF max_value.given /\ max_value.n < start
             THEN [err |-> "ValueError",
                   counter |-> NewCounter(0, DEFAULT_VALUE)]
             ELSE [err |-> "none",
                   counter |-> NewCounter(start,
                                          IF max_value.given THEN max_value.n
                                          ELSE DEFAULT_VALUE)]

\* the Counter under test in SpecCounter, as an object
TheCounter == [value |-> c_value, start |-> c_start, max_value |-> c_max]


(***************************************************************************)
(* utils/icon.py                                                           *)
(***************************************************************************)
ATRON == "A"
SCOUT == "S"
MINER == "M"
PLAYER == "P"
WALL == "#"
DEPLOY_ZONE == "_"
MINERAL == "*"
ACID == "~"
EMPTY == " "
UNKNOWN == "?"

Icon == {ATRON, SCOUT, MINER, PLAYER, WALL, DEPLOY_ZONE, MINERAL, ACID, EMPTY,
         UNKNOWN}

traversable(i) == i \in {DEPLOY_ZONE, ACID, EMPTY}

health_cost(i) ==
    CASE i = WALL -> -1
      [] i = ACID -> -3
      [] OTHER -> 0

(***************************************************************************)
(* utils/coordinate.py; a Coordinate is the pair <<x, y>>.                 *)
(* utils/directions.py is not among the sources: the five members are the  *)
(* ones coordinate.py and map_data.py name.                                *)
(***************************************************************************)
Directions == {"NORTH", "SOUTH", "EAST", "WEST", "CENTER"}

translate_one_SouthGoesNorth(c, direction) ==
    CASE direction = "NORTH" -> <<c[1], c[2] - 1>>
      [] direction = "SOUTH" -> <<c[1], c[2] - 1>>
      [] direction = "EAST" -> <<c[1] + 1, c[2]>>
      [] direction = "WEST" -> <<c[1] - 1, c[2]>>
      [] OTHER -> <<c[1], c[2]>>

translate_one(c, direction) ==
    CASE direction = "NORTH" -> <<c[1], c[2] - 1>>
      [] direction = "SOUTH" -> <<c[1], c[2] + 1>>
      [] direction = "EAST" -> <<c[1] + 1, c[2]>>
      [] direction = "WEST" -> <<c[1] - 1, c[2]>>
      [] OTHER -> <<c[1], c[2]>>

\* North, South, East, West, in this order
cardinals(c) ==
    <<translate_one(c, "NORTH"), translate_one(c, "SOUTH"),
      translate_one(c, "EAST"), translate_one(c, "WEST")>>

(***************************************************************************)
(* utils/context.py                                                        *)
(***************************************************************************)
DEFAULT_COORDINATE == <<-1, -1>>

Context(coord, north, south, east, west) ==
    [none |-> FALSE, coord |-> coord, north |-> north, south |-> south,
     east |-> east, west |-> west]

\* Context(): every field at its default
DEFAULT_CONTEXT ==
    Context(DEFAULT_COORDINATE, UNKNOWN, UNKNOWN, UNKNOWN, UNKNOWN)

\* Python's None in a place that holds a Context
NoContext == [DEFAULT_CONTEXT EXCEPT !.none = TRUE]

(***************************************************************************)
(* The actors: one Player, one Overlord and the Overlord's drones.         *)
(***************************************************************************)
Actors == {"player", "overlord", "miner", "scout"}

\* Overlord.drones, in iteration order
Drones == <<"miner", "scout">>

IsDrone(a) == a \in {Drones[i] : i \in DOMAIN Drones}

PLAYER_DEFAULT_HEALTH == 100
DEFAULT_CAPACITY == 50
OVERLORD_DEFAULT_HEALTH == 10
max_health == 40
max_capacity == 10
max_moves == 1

\* the icon of a Drone subtype; Drone.icon itself raises NotImplementedError
\* and the subtypes are not among the sources: a miner shows Icon.MINER and
\* a scout Icon.SCOUT
DroneIcon(a) == IF a = "miner" THEN MINER ELSE SCOUT

\* Atron.icon of each actor
AtronIcon(a) ==
    CASE a = "player" -> PLAYER
      [] a = "overlord" -> DEPLOY_ZONE
      [] OTHER -> DroneIcon(a)

\* the health the actor's constructor passes to Atron.__init__
AtronHealth(a) ==
    CASE a = "player" -> PLAYER_DEFAULT_HEALTH
      [] a = "overlord" -> OVERLORD_DEFAULT_HEALTH
      [] OTHER -> max_health

\* the capacity the actor's constructor passes to Atron.__init__
AtronCapacity(a) == IF a = "player" THEN DEFAULT_CAPACITY ELSE 0

\* Drone.capacity
capacity(a) == IF IsDrone(a) THEN max_capacity ELSE AtronCapacity(a)

\* Drone.moves
moves(a) == max_moves

\* Atron.__init__ / Drone.__init__: health is a Counter; payload is a
\* Counter for an Atron and the plain int 0 for a Drone
InitHealth == [a \in Actors |-> NewCounter(AtronHealth(a), AtronHealth(a))]

InitPayload ==
    [a \in Actors |-> IF IsDrone(a) THEN 0 ELSE NewCounter(0, AtronCapacity(a))]

InitContext ==
    [a \in Actors |-> IF IsDrone(a) THEN DEFAULT_CONTEXT ELSE NoContext]

\* Atron.deployed / Drone.deployed
deployed(st, a) ==
    IF IsDrone(a) THEN st.context[a] # DEFAULT_CONTEXT
    ELSE ~st.context[a].none

\* the actor holds a context with a coordinate on it (neither None nor
\* DEFAULT_CONTEXT)
HasCoord(st, a) == ~st.context[a].none /\ st.context[a] # DEFAULT_CONTEXT

\* the number an actor's payload holds
PayloadOf(st, a) == IF IsDrone(a) THEN st.payload[a] ELSE st.payload[a].value

(***************************************************************************)
(* utils/map_data.py: the map.  The map is read from a file whose deposit  *)
(* holds `units` units:                                                    *)
(*        ######                                                           *)
(*        #~_ n#                                                           *)
(*        ######                                                           *)
(***************************************************************************)
DigitChars == <<"1", "2", "3", "4", "5", "6", "7", "8", "9">>

MapFile(units) ==
    << <<"#", "#", "#", "#", "#", "#">>,
       <<"#", "~", "_", " ", DigitChars[units], "#">>,
       <<"#", "#", "#", "#", "#", "#">> >>

Height == Len(MapFile(1))

Width == Len(MapFile(1)[1])

Coords == (0 .. Width - 1) \X (0 .. Height - 1)

isdigit(char) == \E n \in DOMAIN DigitChars : DigitChars[n] = char

int(char) == CHOOSE n \in DOMAIN DigitChars : DigitChars[n] = char

\* the character of the file at column x, row y (both from 0)
CharAt(file, c) == file[c[2] + 1][c[1] + 1]

\* MapData._with_file: the Tile icons, the ledger, the acid list and the
\* landing zone read from the file
with_file_icon(file) ==
    [c \in Coords |->
        IF isdigit(CharAt(file, c)) THEN MINERAL ELSE CharAt(file, c)]

with_file_minerals(file) ==
    LET deposits == {c \in Coords : isdigit(CharAt(file, c))}
    IN  [c \in deposits |-> int(CharAt(file, c))]

with_file_acid(file) == {c \in Coords : CharAt(file, c) = ACID}

with_file_landing_zone(file) ==
    CHOOSE c \in Coords : CharAt(file, c) = DEPLOY_ZONE

\* MapData.__getitem__ / __setitem__: self._all_tiles[key.y][key.x], where
\* Python counts a negative index from the end of the list
TileAt(key) == <<key[1] % Width, key[2] % Height>>

\* a list of length n accepts the indices -n .. n - 1 and raises IndexError
\* for any other
InList(index, n) == index \in -n .. n - 1

\* MapData.__getitem__: the Tile found, named by its coordinate, or the
\* exception raised
getitem(key) ==
    IF ~InList(key[2], Height) \/ ~InList(key[1], Width)
    THEN [err |-> "IndexError", kind |-> "nothing", at |-> DEFAULT_COORDINATE]
    ELSE [err |-> "none", kind |-> "tile", at |-> TileAt(key)]

\* MapData.get: self[key], or default if self[key] raises KeyError
get(key, default) ==
    IF getitem(key).err = "KeyError"
    THEN [err |-> "none", kind |-> default, at |-> DEFAULT_COORDINATE]
    ELSE getitem(key)

(***************************************************************************)
(* utils/tile.py: a Tile is the record                                     *)
(*   [surface, terrain, discovered, occupation]                            *)
(* where discovered is the value its BooleanVar holds and occupation is    *)
(* the occupying actor or "None".                                          *)
(***************************************************************************)
\* Tile.__init__
NewTile(i) ==
    [surface |-> i, terrain |-> i, discovered |-> FALSE, occupation |-> "None"]

\* the truth value of `self.discovered` in a condition: the property returns
\* the BooleanVar object itself, and an object that defines neither __bool__
\* nor __len__ is true whatever value it holds
discovered_truth(t) == TRUE

\* the surface setter
set_surface(t, i) ==
    [t EXCEPT !.surface = i,
              !.terrain = IF traversable(i) THEN i ELSE @]

\* tile.discovered.set(True), as MapData.reveal_tile does
set_discovered(t) == [t EXCEPT !.discovered = TRUE]

\* Tile._occupy: the tile after the call, the exception raised and the value
\* returned
occupy(t, atron) ==
    IF ~discovered_truth(t)
    THEN [tile |-> t, err |-> "RuntimeError", ret |-> FALSE]
    ELSE IF ~traversable(t.surface)
    THEN [tile |-> t, err |-> "none", ret |-> FALSE]
    ELSE [tile |-> [t EXCEPT !.occupation = atron,
                             !.surface = AtronIcon(atron)],
          err |-> "none", ret |-> TRUE]

\* Tile._unoccupy
unoccupy(t) ==
    IF ~discovered_truth(t)
    THEN [tile |-> t, err |-> "RuntimeError", ret |-> FALSE]
    ELSE IF t.occupation = "None"
    THEN [tile |-> t, err |-> "none", ret |-> FALSE]
    ELSE [tile |-> [t EXCEPT !.occupation = "None", !.surface = t.terrain],
          err |-> "none", ret |-> TRUE]

(***************************************************************************)
(* The engine's operations, as functions from the state before the call    *)
(* to the state after it.  A state is the record                           *)
(*   [icon, discovered, minerals, health, payload, context, err, ret]      *)
(* where err names the exception the call raised ("none" if it returned)   *)
(* and ret is the value it returned.                                       *)
(***************************************************************************)
Raise(st, error) == [st EXCEPT !.err = error]

\* MapData._clear_tile
clear_tile(st, pos) ==
    [st EXCEPT !.icon[TileAt(pos)] =
        IF pos = landing_zone THEN DEPLOY_ZONE
        ELSE IF pos \in acid THEN ACID
        ELSE EMPTY]

\* MapData.build_context
build_context_WestBeforeEast(st, location) ==
    LET card == cardinals(location)
    IN  Context(location, st.icon[TileAt(card[1])], st.icon[TileAt(card[2])],
                st.icon[TileAt(card[4])], st.icon[TileAt(card[3])])

build_context(st, location) ==
    LET card == cardinals(location)
    IN  Context(location, st.icon[TileAt(card[1])], st.icon[TileAt(card[2])],
                st.icon[TileAt(card[3])], st.icon[TileAt(card[4])])

\* MapData.reveal_tile
reveal_tile(st, coord) == [st EXCEPT !.discovered[TileAt(coord)] = TRUE]

\* reveal_tile on a location and then on each of its cardinals
reveal_around_LocationOnly(st, location) == reveal_tile(st, location)

reveal_around(st, location) ==
    LET card == cardinals(location)
    IN  reveal_tile(reveal_tile(reveal_tile(reveal_tile(
            reveal_tile(st, location), card[1]), card[2]), card[3]), card[4])

\* MapData.deploy_atron
deploy_atron(st, a) ==
    IF st.icon[TileAt(landing_zone)] # DEPLOY_ZONE
    THEN Raise(st, "LandingZoneOccupied")
    ELSE reveal_around(
            [st EXCEPT !.context[a] = build_context(st, landing_zone),
                       !.icon[TileAt(landing_zone)] = AtronIcon(a)],
            landing_zone)

\* Atron.extract_minerals: self._payload.get() and .reset(); a Drone's
\* _payload is an int, which has neither method
extract_minerals(st, a) ==
    IF IsDrone(a) THEN Raise(st, "AttributeError")
    ELSE [st EXCEPT !.ret = st.payload[a].value,
                    !.payload[a] = CounterReset(st.payload[a])]

\* Atron.undeploy
undeploy(st, a) ==
    IF ~deployed(st, a) THEN [st EXCEPT !.ret = 0]
    ELSE extract_minerals([st EXCEPT !.context[a] = NoContext], a)

\* Atron.context / Drone.context followed by .coord: the error it raises,
\* or "none"
context_coord_error(st, a) ==
    IF ~st.context[a].none THEN "none"
    ELSE IF IsDrone(a) THEN "AttributeError"
    ELSE "ContextNotSet"

\* MapData.remove_drone
remove_drone(st, a) ==
    LET s1 == undeploy(st, a)
    IN  IF s1.err # "none" THEN s1
        ELSE IF context_coord_error(s1, a) # "none"
        THEN Raise(s1, context_coord_error(s1, a))
        ELSE clear_tile(s1, s1.context[a].coord)

\* MapData.move_to, the case Icon.DEPLOY_ZONE | Icon.ACID | Icon.EMPTY
move_to_relocate_LeavesSource(st, a, new_location) ==
    IF context_coord_error(st, a) # "none"
    THEN Raise(st, context_coord_error(st, a))
    ELSE LET s2 == [st EXCEPT !.icon[TileAt(new_location)] = AtronIcon(a)]
             s3 == [s2 EXCEPT !.context[a] = build_context(s2, new_location)]
         IN  reveal_around(s3, new_location)

move_to_relocate(st, a, new_location) ==
    IF context_coord_error(st, a) # "none"
    THEN Raise(st, context_coord_error(st, a))
    ELSE LET s1 == clear_tile(st, st.context[a].coord)
             s2 == [s1 EXCEPT !.icon[TileAt(new_location)] = AtronIcon(a)]
             s3 == [s2 EXCEPT !.context[a] = build_context(s2, new_location)]
         IN  reveal_around(s3, new_location)

\* MapData.move_to, the case Icon.WALL
move_to_wall_RawInt(st, a) ==
    [st EXCEPT !.health[a].value = @ - health_cost(WALL)]

move_to_wall(st, a) ==
    [st EXCEPT !.health[a] = CounterCount(st.health[a], -health_cost(WALL))]

\* MapData.move_to, the case Icon.MINERAL; atron.payload.count raises for a
\* Drone, whose payload is an int
move_to_mineral(st, a, new_location) ==
    IF new_location \notin DOMAIN st.minerals THEN Raise(st, "KeyError")
    ELSE
    LET s1 == [st EXCEPT !.minerals[new_location] = @ - 1]
        s2 == [s1 EXCEPT !.payload[a] = CounterCount(s1.payload[a], 1)]
        s3 == clear_tile(s2, new_location)
    IN  IF IsDrone(a) THEN Raise(s1, "AttributeError")
        ELSE IF s2.minerals[new_location] <= 0
        THEN [s3 EXCEPT !.minerals =
                [c \in DOMAIN s3.minerals \ {new_location} |-> s3.minerals[c]]]
        ELSE s2

\* MapData.move_to
move_to(st, a, new_location) ==
    LET target == st.icon[TileAt(new_location)]
    IN  CASE target \in {PLAYER, MINER, SCOUT} -> st
          [] target \in {DEPLOY_ZONE, ACID, EMPTY} ->
                move_to_relocate(st, a, new_location)
          [] target = WALL -> move_to_wall(st, a)
          [] target = MINERAL -> move_to_mineral(st, a, new_location)
          [] OTHER -> st

\* MapData.tick, the acid damage of one move
tick_acid(st, drone) ==
    IF st.context[drone].coord \in acid
    THEN [st EXCEPT !.health[drone] =
            CounterCount(st.health[drone], -health_cost(ACID))]
    ELSE st

\* MapData.tick, the body of `for _ in range(drone.moves)` run n times;
\* direction is what the drone's action answers
RECURSIVE tick_moves(_, _, _, _)
tick_moves(st, drone, n, direction) ==
    IF n = 0 \/ st.err # "none" THEN st
    ELSE IF st.context[drone].none THEN Raise(st, "AttributeError")
    ELSE LET s1 == tick_acid(st, drone)
             coord == s1.context[drone].coord
         IN  IF s1.health[drone].value <= 0
             THEN undeploy(clear_tile(s1, coord), drone)
             ELSE tick_moves(
                    IF direction # "CENTER"
                    THEN move_to(s1, drone, translate_one(coord, direction))
                    ELSE s1,
                    drone, n - 1, direction)

\* MapData.tick: `for drone in drones`, from the i-th drone on; action maps
\* each drone to the direction its policy answers
RECURSIVE tick_from(_, _, _, _)
tick_from(st, drones, i, action) ==
    IF i > Len(drones) \/ st.err # "none" THEN st
    ELSE tick_from(tick_moves(st, drones[i], moves(drones[i]), action[drones[i]]),
                   drones, i + 1, action)

tick(st, drones, action) == tick_from(st, drones, 1, action)

\* MainController.process_tick: the drones handed to tick are the deployed
\* ones, in the order of Overlord.drones
deployed_drones(st) == SelectSeq(Drones, LAMBDA d : deployed(st, d))

(***************************************************************************)
(* units/ally/overlord.py: the pathfinder.  The Overlord's _mining_map is  *)
(* a MapData read from a file that boxes MazeSide x MazeSide open cells    *)
(* in walls, as MapData._create_box does; grid is its tile icons.          *)
(***************************************************************************)
MazeFile ==
    << <<"#", "#", "#", "#", "#">>,
       <<"#", " ", " ", " ", "#">>,
       <<"#", " ", " ", " ", "#">>,
       <<"#", " ", " ", " ", "#">>,
       <<"#", "#", "#", "#", "#">> >>

MazeHeight == Len(MazeFile)

MazeWidth == Len(MazeFile[1])

MazeCoords == (0 .. MazeWidth - 1) \X (0 .. MazeHeight - 1)

\* the cells inside the box
MazeInside == {c \in MazeCoords : CharAt(MazeFile, c) = EMPTY}

\* self._mining_map.get(key, None) on the Overlord's map: MapData.get over
\* MapData.__getitem__, with the lists of this map
maze_get(key) ==
    IF ~InList(key[2], MazeHeight) \/ ~InList(key[1], MazeWidth)
    THEN [err |-> "IndexError", kind |-> "nothing", at |-> DEFAULT_COORDINATE]
    ELSE [err |-> "none", kind |-> "tile",
          at |-> <<key[1] % MazeWidth, key[2] % MazeHeight>>]

\* _NODE_WEIGHTS: the icons it has as keys, and their weights
NodeWeightIcons == {EMPTY, ATRON, DEPLOY_ZONE, ACID}

NODE_WEIGHTS(i) == IF i = ACID THEN 10 ELSE 1

\* the order of the PriorityQueue's entries (weight, Coordinate(x, y)):
\* tuples compare item by item
EntryLess(e, f) ==
    \/ e[1] < f[1]
    \/ e[1] = f[1] /\ e[2][1] < f[2][1]
    \/ e[1] = f[1] /\ e[2][1] = f[2][1] /\ e[2][2] < f[2][2]

\* PriorityQueue.get: the least entry.  The queue is kept as the set of its
\* entries: an entry put twice is got twice in a row, and the second get
\* finds its node visited and is skipped
pqueue_get(pqueue) ==
    CHOOSE e \in pqueue : \A f \in pqueue \ {e} : EntryLess(e, f)

\* parents_map[key] = value
SetParent_Backwards(parents_map, key, value) ==
    [c \in DOMAIN parents_map \cup {value} |->
        IF c = value THEN key ELSE parents_map[c]]

SetParent(parents_map, key, value) ==
    [c \in DOMAIN parents_map \cup {key} |->
        IF c = key THEN value ELSE parents_map[c]]

\* Overlord._add_to_path, from the i-th neighbor on; s is the search state
\* [visited, parents_map, pqueue, path_found, err]
RECURSIVE add_to_path(_, _, _, _, _)
add_to_path(grid, s, node, neighbors, i) ==
    IF i > Len(neighbors) \/ s.err # "none" THEN s
    ELSE IF neighbors[i] \in s.visited
    THEN add_to_path(grid, s, node, neighbors, i + 1)
    ELSE LET neighbor == maze_get(neighbors[i])
         IN  IF neighbor.err # "none" THEN [s EXCEPT !.err = neighbor.err]
             ELSE IF grid[neighbor.at] \notin NodeWeightIcons
             THEN add_to_path(grid, s, node, neighbors, i + 1)
             ELSE add_to_path(grid,
                    [s EXCEPT
                        !.parents_map = SetParent(@, neighbor.at, node),
                        !.pqueue = @ \cup {<<NODE_WEIGHTS(grid[neighbor.at]),
                                             neighbor.at>>}],
                    node, neighbors, i + 1)

\* Overlord._dijkstra, the loop `while not pqueue.empty()`; expanded lists
\* the nodes whose neighbors the loop has looked at
RECURSIVE dijkstra_loop(_, _, _)
dijkstra_loop(grid, s, end) ==
    IF s.pqueue = {} \/ s.err # "none" THEN s
    ELSE LET entry == pqueue_get(s.pqueue)
             node == entry[2]
             s1 == [s EXCEPT !.pqueue = @ \ {entry}]
             neighbors == cardinals(node)
         IN  IF node \in s1.visited THEN dijkstra_loop(grid, s1, end)
             ELSE IF node = end THEN [s1 EXCEPT !.path_found = TRUE]
             ELSE IF \E i \in DOMAIN neighbors : neighbors[i] = end
             THEN [s1 EXCEPT !.path_found = TRUE,
                             !.parents_map = SetParent(@, end, node),
                             !.expanded = Append(@, node)]
             ELSE dijkstra_loop(grid,
                    add_to_path(grid,
                                [s1 EXCEPT !.visited = @ \cup {node},
                                           !.expanded = Append(@, node)],
                                node, neighbors, 1),
                    end)

\* Overlord._build_final_path, the loop `while curr != start`; final_path is
\* the list built so far.  A walk longer than the map has cells never ends.
RECURSIVE build_final_loop(_, _, _, _)
build_final_loop(start, parents_map, curr, final_path) ==
    IF curr = start THEN [err |-> "none", path |-> final_path]
    ELSE IF curr \notin DOMAIN parents_map
    THEN [err |-> "KeyError", path |-> <<>>]
    ELSE IF Len(final_path) > Cardinality(MazeCoords)
    THEN [err |-> "never returns", path |-> <<>>]
    ELSE LET coord == parents_map[curr]
         IN  IF \E i \in 1 .. 4 : cardinals(coord)[i] = start
             THEN [err |-> "none", path |-> Append(final_path, coord)]
             ELSE build_final_loop(start, parents_map, coord,
                                   Append(final_path, coord))

\* final_path[::-1]
Reversed(seq) == [i \in 1 .. Len(seq) |-> seq[Len(seq) + 1 - i]]

\* Overlord._build_final_path
build_final_path(start, end, parents_map) ==
    LET walked == build_final_loop(start, parents_map, end, <<end>>)
    IN  IF walked.err # "none" THEN walked
        ELSE [err |-> "none", path |-> Reversed(Append(walked.path, start))]

\* Overlord._dijkstra, lines 115-119: the search before the loop
NewSearch(start) ==
    [visited |-> {}, parents_map |-> << >>, pqueue |-> {<<0, start>>},
     path_found |-> FALSE, err |-> "none", expanded |-> <<>>]

\* Overlord._dijkstra: the nodes it expanded, in order
dijkstra_expanded(grid, start, end) ==
    dijkstra_loop(grid, NewSearch(start), end).expanded

\* Overlord._dijkstra: the exception raised and the path returned
dijkstra_IgnoresPathFound(grid, start, end) ==
    LET s == dijkstra_loop(grid, NewSearch(start), end)
    IN  IF s.err # "none" THEN [err |-> s.err, path |-> <<>>]
        ELSE build_final_path(start, end, s.parents_map)

dijkstra(grid, start, end) ==
    LET s == dijkstra_loop(grid, NewSearch(start), end)
    IN  IF s.err # "none" THEN [err |-> s.err, path |-> <<>>]
        ELSE IF s.path_found THEN build_final_path(start, end, s.parents_map)
        ELSE [err |-> "none", path |-> <<>>]

(***************************************************************************)
(* gui/main_controller.py: one tick of the game.  An order is what the     *)
(* Overlord answers, split at its first blank: [verb, drone].              *)
(***************************************************************************)
\* the attributes an Overlord has: those of Overlord and of Atron
OverlordAttributes ==
    {"drones", "icon", "deploy", "order_drones", "_task_miner", "_dijkstra",
     "_track_mineral", "_add_to_path", "_build_final_path", "health",
     "payload", "deployed", "context", "extract_minerals", "undeploy"}

\* the attributes a MapData has
MapDataAttributes ==
    {"landing_zone", "_with_file", "_no_file", "get", "build_context",
     "get_unexplored_tiles", "get_explored_tiles", "remove_drone",
     "reveal_tile", "deploy_atron", "move_to", "tick", "_create_box",
     "_add_mineral", "_add_acid", "_get_rand_coords", "_clear_tile"}

\* MainController.process_tick, the `match action`
process_tick_match(st, order) ==
    CASE order.verb = "RETURN" -> remove_drone(st, order.drone)
      [] order.verb = "DEPLOY" ->
            IF "add_drone" \in MapDataAttributes
            THEN deploy_atron(st, order.drone)
            ELSE Raise(st, "AttributeError")
      [] OTHER -> st

\* MainController.process_tick: self._overlord.action() answers order, and
\* the drones' policies answer action
process_tick(st, order, action) ==
    IF "action" \notin OverlordAttributes THEN Raise(st, "AttributeError")
    ELSE LET s1 == process_tick_match(st, order)
         IN  IF s1.err # "none" THEN s1
             ELSE tick(s1, deployed_drones(s1), action)

(***************************************************************************)
(* The state machine of the engine.                                        *)
(***************************************************************************)
\* the engine's state, as the record the operations work on
Cur ==
    [icon |-> icon, discovered |-> discovered, minerals |-> minerals,
     health |-> health, payload |-> payload, context |-> context,
     err |-> "none", ret |-> 0]

\* the call op(actor, target) took the engine from Cur to st
EngineBecomes(st, op, actor, target) ==
    /\ icon' = st.icon
    /\ discovered' = st.discovered
    /\ minerals' = st.minerals
    /\ health' = st.health
    /\ payload' = st.payload
    /\ context' = st.context
    /\ last' = [op |-> op, actor |-> actor, target |-> target,
                err |-> st.err, ret |-> st.ret]
    /\ UNCHANGED <<acid, landing_zone, counterVars, lookupVars, tileVars,
                 pathVars, pureVars, taskVars, genVars>>

\* the same, in a run that does not count the moves made on acid
Becomes(st, op, actor, target) ==
    /\ EngineBecomes(st, op, actor, target)
    /\ UNCHANGED stay

\* no ledger entry has been driven MaxOverdraft below zero
WithinOverdraft == \A c \in DOMAIN minerals : minerals[c] > -MaxOverdraft

InitCounterIdle ==
    /\ c_value = 0
    /\ c_start = 0
    /\ c_max = DEFAULT_VALUE
    /\ c_last = [op |-> "init", arg |-> 0, before |-> 0]

\* a map just read from its file, and actors just constructed
InitEngine ==
    /\ \E units \in 1 .. MaxUnits :
        /\ icon = with_file_icon(MapFile(units))
        /\ minerals = with_file_minerals(MapFile(units))
        /\ acid = with_file_acid(MapFile(units))
        /\ landing_zone = with_file_landing_zone(MapFile(units))
    /\ discovered = [c \in Coords |-> FALSE]
    /\ health = InitHealth
    /\ payload = InitPayload
    /\ context = InitContext
    /\ last = [op |-> "init", actor |-> "none", target |-> DEFAULT_COORDINATE,
               err |-> "none", ret |-> 0]
    /\ stay = 0

\* Overlord.__init__ and Drone.__init__: an Overlord on no map that tracks
\* no mineral, and a miner with an empty path and no state attribute yet
NewTask ==
    [on_map |-> FALSE, landing_zone |-> DEFAULT_COORDINATE,
     untasked |-> {}, tasked |-> {}, path |-> <<>>, state |-> "unset",
     op |-> "init", arg |-> DEFAULT_COORDINATE, err |-> "none"]

\* an Overlord that tracks no mineral and tasks no miner
InitTaskIdle == task = NewTask

\* no map under generation
InitGenIdle ==
    gen = [phase |-> "idle", width |-> 0, height |-> 0, density |-> 0,
           tiles |-> << >>, landing_zone |-> DEFAULT_COORDINATE,
           total_minerals |-> {}, left |-> 0]

\* no Counter under construction, no Coordinate under way
InitPureIdle ==
    /\ built = [op |-> "init", value |-> None, max_value |-> None,
                err |-> "none", counter |-> NewCounter(0, DEFAULT_VALUE)]
    /\ trip = [from |-> DEFAULT_COORDINATE, at |-> DEFAULT_COORDINATE,
               steps |-> <<>>]

\* an Overlord nobody asks for a path
InitPathIdle ==
    /\ maze = [c \in MazeCoords |-> CharAt(MazeFile, c)]
    /\ route = [start |-> DEFAULT_COORDINATE, end |-> DEFAULT_COORDINATE,
                done |-> FALSE, err |-> "none", path |-> <<>>,
                expanded |-> <<>>]

\* a Tile nobody calls
InitTileIdle ==
    /\ tile = NewTile(EMPTY)
    /\ tile_last = [op |-> "init", arg |-> "None", err |-> "none",
                    ret |-> FALSE, before |-> NewTile(EMPTY)]

\* no lookup made yet
InitLookupIdle ==
    looked = [op |-> "init", key |-> DEFAULT_COORDINATE, default |-> "None",
              err |-> "none", kind |-> "nothing", at |-> DEFAULT_COORDINATE]

Init ==
    /\ InitEngine
    /\ InitCounterIdle
    /\ InitLookupIdle
    /\ InitTileIdle
    /\ InitPathIdle
    /\ InitPureIdle
    /\ InitTaskIdle
    /\ InitGenIdle

\* atron.deploy(map_data): map_data.deploy_atron(atron)
DeployAtron(a) ==
    Becomes(deploy_atron(Cur, a), "deploy_atron", a, landing_zone)

\* Player.move_player:
\* map_data.move_to(player, player.context.coord.translate_one(direction))
MoveTo(a, direction) ==
    /\ HasCoord(Cur, a)
    /\ WithinOverdraft
    /\ LET new_location == translate_one(context[a].coord, direction)
       IN  Becomes(move_to(Cur, a, new_location), "move_to", a, new_location)

\* MainController.process_tick: map_data.tick(deployed drones)
Tick(action) ==
    /\ WithinOverdraft
    /\ Becomes(tick(Cur, deployed_drones(Cur), action), "tick", "none",
               DEFAULT_COORDINATE)

\* MainController.process_tick, RETURN: map_data.remove_drone(drone)
RemoveDrone(a) ==
    Becomes(remove_drone(Cur, a), "remove_drone", a, DEFAULT_COORDINATE)

\* GameData.finish_excavation: player.undeploy()
Undeploy(a) ==
    Becomes(undeploy(Cur, a), "undeploy", a, DEFAULT_COORDINATE)

\* the answers of the drones' policies when only the drones in ds are asked
Answers(ds) ==
    {action \in [{Drones[i] : i \in DOMAIN Drones} -> Directions] :
        \A d \in DOMAIN action : d \notin ds => action[d] = "CENTER"}

\* the engine with one Player, one Overlord and one drone in play
Next ==
    \/ \E a \in {"player", "overlord", "miner"} : DeployAtron(a)
    \/ \E direction \in Directions \ {"CENTER"} : MoveTo("player", direction)
    \/ \E action \in Answers({"miner"}) : Tick(action)
    \/ RemoveDrone("miner")
    \/ Undeploy("player")

Spec == Init /\ [][Next]_vars

(***************************************************************************)
(* The state machine of the game loop: the engine, and whole ticks run by  *)
(* MainController.process_tick.                                            *)
(***************************************************************************)
\* what the Overlord may answer: nothing, a word process_tick does not
\* know, or an order for the drone in play
Orders ==
    {[verb |-> "", drone |-> "none"], [verb |-> "WAIT", drone |-> "none"],
     [verb |-> "RETURN", drone |-> "miner"],
     [verb |-> "DEPLOY", drone |-> "miner"]}

\* mined += self.process_tick(self._mining_map)
ProcessTick(order, action) ==
    /\ WithinOverdraft
    /\ Becomes(process_tick(Cur, order, action), "process_tick", "none",
               DEFAULT_COORDINATE)

NextLoop ==
    \/ Next
    \/ \E order \in Orders, action \in Answers({"miner"}) :
            ProcessTick(order, action)

SpecLoop == Init /\ [][NextLoop]_vars

(***************************************************************************)
(* The state machine of one Counter: constructed with 0 <= start <= max or *)
(* with no max, then set, count and reset with arbitrary arguments.        *)
(***************************************************************************)
InitEngineIdle ==
    /\ icon = with_file_icon(MapFile(1))
    /\ minerals = with_file_minerals(MapFile(1))
    /\ acid = with_file_acid(MapFile(1))
    /\ landing_zone = with_file_landing_zone(MapFile(1))
    /\ discovered = [c \in Coords |-> FALSE]
    /\ health = InitHealth
    /\ payload = InitPayload
    /\ context = InitContext
    /\ last = [op |-> "init", actor |-> "none", target |-> DEFAULT_COORDINATE,
               err |-> "none", ret |-> 0]
    /\ stay = 0

InitCounter ==
    /\ InitEngineIdle
    /\ InitLookupIdle
    /\ InitTileIdle
    /\ InitPathIdle
    /\ InitPureIdle
    /\ InitTaskIdle
    /\ InitGenIdle
    /\ c_start \in 0 .. MaxCounter
    /\ c_max \in {DEFAULT_VALUE} \cup (c_start .. MaxCounter)
    /\ c_value = c_start
    /\ c_last = [op |-> "init", arg |-> c_start, before |-> c_start]

CounterBecomes(c, op, arg) ==
    /\ c_value' = c.value
    /\ c_last' = [op |-> op, arg |-> arg, before |-> c_value]
    /\ UNCHANGED <<c_start, c_max, engineVars, lookupVars, tileVars, pathVars,
                 pureVars, taskVars, genVars>>

\* counter.set(value)
Set(value) == CounterBecomes(CounterSet(TheCounter, value), "set", value)

\* counter.count(value); a Counter without a max is not driven past
\* MaxCounter + MaxArg
Count(value) ==
    /\ c_value + value <= MaxCounter + MaxArg
    /\ CounterBecomes(CounterCount(TheCounter, value), "count", value)

\* counter.reset()
Reset == CounterBecomes(CounterReset(TheCounter), "reset", 0)

NextCounter ==
    \/ \E value \in -MaxArg .. MaxArg : Set(value)
    \/ \E value \in -MaxArg .. MaxArg : Count(value)
    \/ Reset

SpecCounter == InitCounter /\ [][NextCounter]_vars

(***************************************************************************)
(* The state machine of the lookups in a map: map_data.get(key, default)   *)
(* and map_data[key], for keys inside the grid and up to MaxBeyond past    *)
(* the indices a Python list accepts.                                      *)
(***************************************************************************)
Keys ==
    (-Width - MaxBeyond .. Width - 1 + MaxBeyond)
        \X (-Height - MaxBeyond .. Height - 1 + MaxBeyond)

\* what a caller passes as default: None or a Tile of its own
Defaults == {"None", "default"}

InitLookup ==
    /\ InitEngine
    /\ InitCounterIdle
    /\ InitLookupIdle
    /\ InitTileIdle
    /\ InitPathIdle
    /\ InitPureIdle
    /\ InitTaskIdle
    /\ InitGenIdle

LookupBecomes(found, op, key, default) ==
    /\ looked' = [op |-> op, key |-> key, default |-> default,
                  err |-> found.err, kind |-> found.kind, at |-> found.at]
    /\ UNCHANGED <<engineVars, counterVars, tileVars, pathVars, pureVars,
                 taskVars, genVars>>

\* map_data.get(key, default)
Get(key, default) == LookupBecomes(get(key, default), "get", key, default)

\* map_data[key]
GetItem(key) == LookupBecomes(getitem(key), "getitem", key, "None")

NextLookup ==
    \/ \E key \in Keys, default \in Defaults : Get(key, default)
    \/ \E key \in Keys : GetItem(key)

SpecLookup == InitLookup /\ [][NextLookup]_vars

(***************************************************************************)
(* The state machine of one Tile: created with one of the icons a map      *)
(* holds, then revealed, occupied, unoccupied and given surfaces in any    *)
(* order.                                                                  *)
(***************************************************************************)
\* the icons MapData creates its tiles with
TerrainIcons == {WALL, EMPTY, ACID, DEPLOY_ZONE, MINERAL}

InitTile ==
    /\ InitEngineIdle
    /\ InitCounterIdle
    /\ InitLookupIdle
    /\ InitPathIdle
    /\ InitPureIdle
    /\ InitTaskIdle
    /\ InitGenIdle
    /\ \E i \in TerrainIcons :
        /\ tile = NewTile(i)
        /\ tile_last = [op |-> "init", arg |-> i, err |-> "none",
                        ret |-> FALSE, before |-> NewTile(i)]

TileBecomes(res, op, arg) ==
    /\ tile' = res.tile
    /\ tile_last' = [op |-> op, arg |-> arg, err |-> res.err,
                     ret |-> res.ret, before |-> tile]
    /\ UNCHANGED <<engineVars, counterVars, lookupVars, pathVars, pureVars,
                 taskVars, genVars>>

\* tile.occupied_drone = atron
Occupy(atron) == TileBecomes(occupy(tile, atron), "occupy", atron)

\* tile.occupied_drone = None
Unoccupy == TileBecomes(unoccupy(tile), "unoccupy", "None")

\* tile.surface = i
SetSurface(i) ==
    TileBecomes([tile |-> set_surface(tile, i), err |-> "none", ret |-> FALSE],
                "surface", i)

\* tile.discovered.set(True)
Reveal ==
    TileBecomes([tile |-> set_discovered(tile), err |-> "none", ret |-> FALSE],
                "reveal", "None")

NextTile ==
    \/ \E atron \in Actors : Occupy(atron)
    \/ Unoccupy
    \/ \E i \in TerrainIcons : SetSurface(i)
    \/ Reveal

SpecTile == InitTile /\ [][NextTile]_vars

(***************************************************************************)
(* The state machine of the pathfinder: a boxed map with its landing zone, *)
(* up to MaxObstacles walls and up to MaxAcid acid tiles inside, and one   *)
(* call _dijkstra(landing zone, end), as Overlord._task_miner makes.       *)
(***************************************************************************)
InitPath ==
    /\ InitEngineIdle
    /\ InitCounterIdle
    /\ InitLookupIdle
    /\ InitTileIdle
    /\ InitPureIdle
    /\ InitTaskIdle
    /\ InitGenIdle
    /\ \E start \in MazeInside, end \in MazeInside :
       \E walls \in SUBSET (MazeInside \ {start}) :
       \E acids \in SUBSET (MazeInside \ ({start} \cup walls)) :
        /\ Cardinality(walls) <= MaxObstacles
        /\ Cardinality(acids) <= MaxAcid
        /\ maze = [c \in MazeCoords |->
                    CASE c = start -> DEPLOY_ZONE
                      [] c \in walls -> WALL
                      [] c \in acids -> ACID
                      [] OTHER -> CharAt(MazeFile, c)]
        /\ route = [start |-> start, end |-> end, done |-> FALSE,
                    err |-> "none", path |-> <<>>, expanded |-> <<>>]

\* miner.path = self._dijkstra(self._mining_map.landing_zone, mineral)
FindPath ==
    /\ ~route.done
    /\ LET answer == dijkstra(maze, route.start, route.end)
       IN  route' = [route EXCEPT
                        !.done = TRUE, !.err = answer.err,
                        !.path = answer.path,
                        !.expanded =
                            dijkstra_expanded(maze, route.start, route.end)]
    /\ UNCHANGED <<maze, engineVars, counterVars, lookupVars, tileVars, pureVars,
                 taskVars, genVars>>

NextPath == FindPath

SpecPath == InitPath /\ [][NextPath]_vars

(***************************************************************************)
(* The state machine of the engine with the Overlord's two drones in play. *)
(***************************************************************************)
Fleet == {Drones[i] : i \in DOMAIN Drones}

NextFleet ==
    \/ \E a \in Fleet : DeployAtron(a)
    \/ \E action \in Answers(Fleet) : Tick(action)
    \/ \E a \in Fleet : RemoveDrone(a)
    \/ \E a \in Fleet : Undeploy(a)

SpecFleet == Init /\ [][NextFleet]_vars

(***************************************************************************)
(* The state machine of Counter constructions: Counter(value=, max_value=) *)
(* with each argument left out or anything in -MaxArg .. MaxArg.           *)
(***************************************************************************)
OptionalInts == {None} \cup {Given(n) : n \in -MaxArg .. MaxArg}

InitIdleButPure ==
    /\ InitEngineIdle
    /\ InitCounterIdle
    /\ InitLookupIdle
    /\ InitTileIdle
    /\ InitPathIdle
    /\ InitTaskIdle
    /\ InitGenIdle

InitBuild == InitIdleButPure /\ InitPureIdle

\* Counter(value=value, max_value=max_value)
Construct(value, max_value) ==
    /\ built' = [op |-> "construct", value |-> value,
                 max_value |-> max_value,
                 err |-> counter_init(value, max_value).err,
                 counter |-> counter_init(value, max_value).counter]
    /\ UNCHANGED <<trip, engineVars, counterVars, lookupVars, tileVars,
                   pathVars, taskVars, genVars>>

NextBuild == \E value \in OptionalInts, max_value \in OptionalInts :
                Construct(value, max_value)

SpecBuild == InitBuild /\ [][NextBuild]_vars

(***************************************************************************)
(* The state machine of a Coordinate translated one step at a time.        *)
(***************************************************************************)
InitTrip ==
    /\ InitIdleButPure
    /\ built = [op |-> "init", value |-> None, max_value |-> None,
                err |-> "none", counter |-> NewCounter(0, DEFAULT_VALUE)]
    /\ \E x \in -MaxCoord .. MaxCoord, y \in -MaxCoord .. MaxCoord :
            trip = [from |-> <<x, y>>, at |-> <<x, y>>, steps |-> <<>>]

\* coord = coord.translate_one(direction)
Translate(direction) ==
    /\ Len(trip.steps) < MaxSteps
    /\ trip' = [trip EXCEPT !.at = translate_one(trip.at, direction),
                            !.steps = Append(@, direction)]
    /\ UNCHANGED <<built, engineVars, counterVars, lookupVars, tileVars,
                   pathVars, taskVars, genVars>>

NextTrip == \E direction \in Directions : Translate(direction)

SpecTrip == InitTrip /\ [][NextTrip]_vars

(***************************************************************************)
(* Properties of the lookups (SpecLookup).                                 *)
(***************************************************************************)
\* the key names a cell of the grid
InGrid(key) == key[1] \in 0 .. Width - 1 /\ key[2] \in 0 .. Height - 1

\* C19: get(key, default) returns the tile at key for a key inside the grid
\* and default for a key outside it; indexing with a key outside the grid
\* fails and never returns a tile.
C19_LookupOutsideGrid ==
    /\ (looked.op = "get" /\ InGrid(looked.key))
            => (looked.err = "none" /\ looked.kind = "tile"
                /\ looked.at = looked.key)
    /\ (looked.op = "get" /\ ~InGrid(looked.key))
            => (looked.err = "none" /\ looked.kind = looked.default)
    /\ (looked.op = "getitem" /\ ~InGrid(looked.key))
            => (looked.err # "none" /\ looked.kind # "tile")

(***************************************************************************)
(* Properties of the Counter (SpecCounter).                                *)
(***************************************************************************)
\* C3: after any sequence of set, count and reset calls on a Counter built
\* with 0 <= start <= max (or with no max), get() is >= 0 and, when a max
\* was given, <= max.
C3_CounterInRange ==
    /\ c_value >= 0
    /\ c_max # DEFAULT_VALUE => c_value <= c_max

\* a call whose argument lay above the max was clamped to the max, and one
\* whose argument lay below 0 would be clamped to 0
C3_Witness ==
    /\ c_last.op = "count"
    /\ c_max # DEFAULT_VALUE
    /\ c_last.before + c_last.arg > c_max
    /\ c_value = c_max

\* C4: reset() makes get() return exactly the start value given at
\* construction, which need not be 0 or max.
C4_ResetRestoresStart == c_last.op = "reset" => c_value = c_start

\* a reset of a Counter whose start is neither 0 nor its max, from a value
\* other than the start
C4_Witness ==
    /\ c_last.op = "reset"
    /\ c_start # 0
    /\ c_start # c_max
    /\ c_last.before # c_start
    /\ c_value = c_start

(***************************************************************************)
(* Properties of the engine (Spec).                                        *)
(***************************************************************************)
\* the coordinate an actor stands on
CoordOf(a) == context[a].coord

OnMap(a) == HasCoord(Cur, a)

\* C1: no two deployed actors have the same coordinate.
C1_NoSharedCoordinate ==
    \A a, b \in Actors :
        (a # b /\ OnMap(a) /\ OnMap(b)) => CoordOf(a) # CoordOf(b)

EngineUnchanged ==
    /\ icon' = icon
    /\ discovered' = discovered
    /\ minerals' = minerals
    /\ health' = health
    /\ payload' = payload
    /\ context' = context

\* C5: deploying an actor while another actor stands on the landing zone
\* fails with LandingZoneOccupied and leaves the map unchanged.
C5_OccupiedDeployFails ==
    [][(/\ last'.op = "deploy_atron"
        /\ \E b \in Actors \ {last'.actor} :
                OnMap(b) /\ CoordOf(b) = landing_zone)
       => (last'.err = "LandingZoneOccupied" /\ EngineUnchanged)]_vars

\* C6: move_to onto a Wall never relocates the actor and reduces its health
\* by exactly 1.
C6_WallCostsOneHealth ==
    [][(/\ last'.op = "move_to"
        /\ icon[TileAt(last'.target)] = WALL
        /\ health[last'.actor].value >= 1)
       => (/\ context' = context
           /\ icon' = icon
           /\ health'[last'.actor].value = health[last'.actor].value - 1)]_vars

\* the larger of 0 and n
AtLeastZero(n) == IF n < 0 THEN 0 ELSE n

\* C7: in a tick, a drone standing in acid that answers CENTER loses exactly
\* 3 health (clamped at 0).
C7_AcidCostsThreeHealth ==
    [][\A action \in Answers({"miner"}) :
        (/\ Tick(action)
         /\ action["miner"] = "CENTER"
         /\ OnMap("miner")
         /\ CoordOf("miner") \in acid)
        => health'["miner"].value = AtLeastZero(health["miner"].value - 3)]_vars

\* the step is a move_to of actor a onto new_location, called by the player's
\* input or from within a tick
MoveToStep(a, new_location) ==
    \/ /\ last'.op = "move_to"
       /\ last'.actor = a
       /\ last'.target = new_location
    \/ /\ IsDrone(a)
       /\ OnMap(a)
       /\ \E action \in Answers({a}) :
            /\ Tick(action)
            /\ action[a] # "CENTER"
            /\ new_location = translate_one(CoordOf(a), action[a])

\* the step is a move_to of actor a onto a Mineral tile holding n units
MiningStep(a, new_location, n) ==
    /\ new_location \in DOMAIN minerals
    /\ minerals[new_location] = n
    /\ icon[new_location] = MINERAL
    /\ MoveToStep(a, new_location)

\* C8: a move_to onto a deposit of n >= 1 units leaves n - 1 units and the
\* Mineral icon when n > 1, removes the entry and shows the terrain when
\* n = 1, and never moves the actor.
C8_MiningDepletesDeposit ==
    [][\A a \in Actors, new_location \in Coords, n \in 1 .. MaxUnits :
        MiningStep(a, new_location, n)
        => (/\ CoordOf(a)' = CoordOf(a)
            /\ n > 1 => (/\ new_location \in DOMAIN minerals'
                         /\ minerals'[new_location] = n - 1
                         /\ icon'[new_location] = MINERAL)
            /\ n = 1 => (/\ new_location \notin DOMAIN minerals'
                         /\ icon'[new_location] = EMPTY))]_vars

\* C9: each move_to that mines a unit raises the mining actor's payload by
\* exactly 1.
C9_MiningFillsPayload ==
    [][\A a \in Actors, new_location \in Coords, n \in 1 .. MaxUnits :
        MiningStep(a, new_location, n)
        => PayloadOf(Cur, a)' = PayloadOf(Cur, a) + 1]_vars

\* C10: remove_drone for a drone that is not on the landing zone fails and
\* leaves the drone deployed, with its context and payload and every tile
\* icon unchanged.
C10_RemoveElsewhereFails ==
    [][(/\ last'.op = "remove_drone"
        /\ OnMap(last'.actor)
        /\ CoordOf(last'.actor) # landing_zone)
       => (/\ last'.err # "none"
           /\ context'[last'.actor] = context[last'.actor]
           /\ payload'[last'.actor] = payload[last'.actor]
           /\ icon' = icon)]_vars

\* C11: remove_drone for a deployed drone standing on the landing zone
\* succeeds: it returns the payload the drone held, leaves the drone
\* undeployed with payload 0, and shows DeployZone on the landing zone again.
C11_RemoveAtLandingZoneSucceeds ==
    [][\A a \in Actors :
        (/\ last'.op = "remove_drone"
         /\ last'.actor = a
         /\ OnMap(a)
         /\ CoordOf(a) = landing_zone)
        => (/\ last'.err = "none"
            /\ last'.ret = PayloadOf(Cur, a)
            /\ ~deployed(Cur, a)'
            /\ PayloadOf(Cur, a)' = 0
            /\ icon'[landing_zone] = DEPLOY_ZONE)]_vars

\* C14: the landing-zone coordinate never changes, and whenever no deployed
\* actor stands on it its tile shows DeployZone.
C14_LandingZoneShowsWhenFree ==
    /\ landing_zone = with_file_landing_zone(MapFile(1))
    /\ (~ \E a \in Actors : OnMap(a) /\ CoordOf(a) = landing_zone)
            => icon[landing_zone] = DEPLOY_ZONE

\* C15: every coordinate in the mineral ledger shows Mineral and holds at
\* least one unit (a deposit whose last unit was mined has left the ledger),
\* and a mined-out deposit shows its terrain.
C15_LedgerMatchesTiles ==
    /\ \A c \in DOMAIN minerals : icon[c] = MINERAL /\ minerals[c] >= 1
    /\ \A c \in DOMAIN with_file_minerals(MapFile(1)) \ DOMAIN minerals :
            icon[c] = EMPTY

\* C16: an actor is deployed exactly when its context is other than the
\* undeployed marker it was constructed with, and right after undeploy or
\* remove_drone the actor is not deployed.
C16_DeployedIffContext ==
    /\ \A a \in Actors : deployed(Cur, a) <=> context[a] # InitContext[a]
    /\ last.op \in {"undeploy", "remove_drone"} => ~deployed(Cur, last.actor)

(***************************************************************************)
(* Properties of the Tile (SpecTile).                                      *)
(***************************************************************************)
\* the tile is free, or shows its occupant's icon
ShowsOccupant(t) ==
    t.occupation # "None" => t.surface = AtronIcon(t.occupation)

\* C17: an occupy, unoccupy or surface assignment on a discovered tile that
\* shows its occupant leaves a tile that shows its occupant, and a
\* successful unoccupy leaves the tile free with its surface equal to its
\* terrain.
C17_OccupiedSurfaceIsOccupant ==
    [][(tile.discovered /\ ShowsOccupant(tile))
       => (/\ ShowsOccupant(tile')
           /\ (tile_last'.op = "unoccupy" /\ tile_last'.ret)
                => (tile'.occupation = "None"
                    /\ tile'.surface = tile'.terrain))]_vars

\* C18: occupy and unoccupy on an undiscovered tile fail with an error and
\* change neither the occupant nor the surface.
C18_UndiscoveredTileFails ==
    (tile_last.op \in {"occupy", "unoccupy"} /\ ~tile_last.before.discovered)
        => (/\ tile_last.err # "none"
            /\ tile.occupation = tile_last.before.occupation
            /\ tile.surface = tile_last.before.surface)

(***************************************************************************)
(* Properties of the pathfinder (SpecPath).                                *)
(***************************************************************************)
\* |n|
Abs(n) == IF n < 0 THEN -n ELSE n

Manhattan(a, b) == Abs(a[1] - b[1]) + Abs(a[2] - b[2])

\* no wall and no acid inside the box: every cell has weight 1
NoObstacles == \A c \in MazeInside : maze[c] \in {EMPTY, DEPLOY_ZONE}

\* C12: on a map with no obstacles the path returned has as many edges as
\* the Manhattan distance between start and end.
C12_PathLengthIsManhattan ==
    (route.done /\ NoObstacles)
        => (/\ route.err = "none"
            /\ Len(route.path) - 1 = Manhattan(route.start, route.end))

\* the cells a walk from the cells in seen can stand on: each step goes to a
\* cardinal neighbour that is pathable
RECURSIVE Connected(_)
Connected(seen) ==
    LET more == {c \in MazeCoords \ seen :
                    /\ maze[c] \in NodeWeightIcons
                    /\ \E d \in seen : Manhattan(c, d) = 1}
    IN  IF more = {} THEN seen ELSE Connected(seen \cup more)

\* the end is not the start and no cell connected to the start is next to it
WalledOff ==
    /\ route.start # route.end
    /\ \A c \in Connected({route.start}) : Manhattan(c, route.end) # 1

\* C13: when the target is walled off from the start, the pathfinder returns
\* the empty path.
C13_WalledOffGivesEmptyPath ==
    (route.done /\ WalledOff) => (route.err = "none" /\ route.path = <<>>)

\* the search walked over several cells, found no way to a target closed in
\* by two walls, and answered the empty path
C13_Witness ==
    /\ route.done
    /\ WalledOff
    /\ Cardinality(Connected({route.start})) > 2
    /\ maze[route.end] # WALL
    /\ route.err = "none"
    /\ route.path = <<>>

(***************************************************************************)
(* Properties of the game loop (SpecLoop).                                 *)
(***************************************************************************)
\* C20: a tick whose order is neither DEPLOY nor RETURN is not stopped by
\* the order: the engine ends where the movement of the deployed drones
\* alone takes it, so no actor is deployed or undeployed by the order.
C20_UnknownOrderIgnored ==
    [][\A order \in Orders, action \in Answers({"miner"}) :
        (ProcessTick(order, action) /\ order.verb \notin {"DEPLOY", "RETURN"})
        => LET moved == tick(Cur, deployed_drones(Cur), action)
           IN  /\ last'.err = moved.err
               /\ context' = moved.context
               /\ icon' = moved.icon
               /\ health' = moved.health
               /\ payload' = moved.payload
               /\ minerals' = moved.minerals]_vars

(***************************************************************************)
(* Properties of Counter constructions (SpecBuild).                        *)
(***************************************************************************)
\* the start a construction asks for: value, or 0 when value is left out
AskedStart == IF built.value.given THEN built.value.n ELSE 0

\* C21: a construction with start < 0 or max < start fails; every
\* construction with 0 <= start <= max, or with no max, succeeds and get()
\* is then start.
C21_ConstructionChecksBounds ==
    built.op = "construct" =>
        IF AskedStart < 0 \/ (built.max_value.given
                              /\ built.max_value.n < AskedStart)
        THEN built.err # "none"
        ELSE built.err = "none" /\ built.counter.value = AskedStart

\* a construction with 0 < start < max succeeded, and one can tell its
\* start from its max
C21_Witness ==
    /\ built.op = "construct"
    /\ built.value.given
    /\ built.value.n > 0
    /\ built.max_value.given
    /\ built.max_value.n > built.value.n
    /\ built.err = "none"
    /\ built.counter.value = built.value.n
    /\ built.counter.max_value = built.max_value.n

(***************************************************************************)
(* Properties of Coordinate translations (SpecTrip).                       *)
(***************************************************************************)
Opposite(direction) ==
    CASE direction = "NORTH" -> "SOUTH"
      [] direction = "SOUTH" -> "NORTH"
      [] direction = "EAST" -> "WEST"
      [] direction = "WEST" -> "EAST"
      [] OTHER -> "CENTER"

\* C22: a translation followed by the translation in the opposite direction
\* ends where it began, and a translation to CENTER stays where it is.
C22_TranslateRoundTrip ==
    /\ (Len(trip.steps) = 2 /\ trip.steps[2] = Opposite(trip.steps[1]))
            => trip.at = trip.from
    /\ (Len(trip.steps) = 1 /\ trip.steps[1] = "CENTER")
            => trip.at = trip.from

\* a step away from the origin and the step back
C22_Witness ==
    /\ Len(trip.steps) = 2
    /\ trip.steps[1] = "NORTH"
    /\ trip.steps[2] = "SOUTH"
    /\ trip.from = <<0, 0>>
    /\ trip.at = <<0, 0>>

(***************************************************************************)
(* Properties of moves, reveals, contexts and deployments (Spec).          *)
(***************************************************************************)
\* the icon _clear_tile is to leave at pos
Terrain(pos) ==
    IF pos = landing_zone THEN DEPLOY_ZONE
    ELSE IF pos \in acid THEN ACID
    ELSE EMPTY

\* where actor a gets by one step in a direction
Towards(a, direction) == translate_one(CoordOf(a), direction)

\* the drones' answers when drone a answers direction and the others CENTER
OnlyAnswer(a, direction) ==
    [d \in {Drones[i] : i \in DOMAIN Drones} |->
        IF d = a THEN direction ELSE "CENTER"]

\* the step is a move_to of actor a, standing on the map, in a direction:
\* called by the player's input, or from within a tick
MovingStep(a, direction) ==
    /\ OnMap(a)
    /\ \/ /\ last'.op = "move_to"
          /\ last'.actor = a
          /\ last'.target = Towards(a, direction)
       \/ /\ last'.op = "tick"
          /\ IsDrone(a)
          /\ Tick(OnlyAnswer(a, direction))

\* the step is a move_to of actor a onto a tile that shows DeployZone, Acid
\* or Empty
RelocatingStep(a, direction) ==
    /\ OnMap(a)
    /\ icon[Towards(a, direction)] \in {DEPLOY_ZONE, ACID, EMPTY}
    /\ MovingStep(a, direction)

\* the directions a move goes in
Ways == Directions \ {"CENTER"}

\* nothing but move_to touches actor a in the step: the step is a direct
\* move_to, or a tick whose acid damage does not reach a
OnlyMoves(a) == last'.op = "move_to" \/ CoordOf(a) \notin acid

C26_OccupiedTargetBlocks ==
    [][\A a \in Actors, b \in Actors, direction \in Ways :
        (/\ a # b
         /\ OnMap(a)
         /\ OnMap(b)
         /\ CoordOf(b) = Towards(a, direction)
         /\ MovingStep(a, direction))
        => (/\ context'[a] = context[a]
            /\ context'[b] = context[b]
            /\ OnlyMoves(a) => health'[a] = health[a]
            /\ health'[b] = health[b]
            /\ payload'[a] = payload[a]
            /\ payload'[b] = payload[b]
            /\ minerals' = minerals
            /\ icon' = icon)]_vars

\* c and each of its cardinals on the map are discovered
RevealedAround(flags, c) ==
    /\ flags[c]
    /\ \A i \in 1 .. 4 : cardinals(c)[i] \in Coords => flags[cardinals(c)[i]]

\* C27: a discovered tile stays discovered, and a successful deploy_atron
\* or relocating move_to leaves the actor's tile and its cardinals on the map
\* discovered.
C27_RevealsAroundTheActor ==
    [][/\ \A c \in Coords : discovered[c] => discovered'[c]
       /\ (last'.op = "deploy_atron" /\ last'.err = "none")
            => RevealedAround(discovered', landing_zone)
       /\ \A a \in Actors, direction \in Ways :
            RelocatingStep(a, direction)
            => RevealedAround(discovered', Towards(a, direction))]_vars

\* a move has revealed tiles the deployment had not, and some tile is still
\* to discover
C27_Witness ==
    /\ last.op = "move_to"
    /\ last.target # landing_zone
    /\ RevealedAround(discovered, last.target)
    /\ RevealedAround(discovered, landing_zone)
    /\ \E c \in Coords : ~discovered[c]

\* the context of an actor at c, by the icons now around c
ContextAt(icons, c) ==
    Context(c, icons[<<c[1], c[2] - 1>>], icons[<<c[1], c[2] + 1>>],
            icons[<<c[1] + 1, c[2]>>], icons[<<c[1] - 1, c[2]>>])

\* C28: the context assigned on a deploy or a relocating move has the
\* actor's new coordinate and, as north, south, east and west, the icons at
\* (x, y-1), (x, y+1), (x+1, y) and (x-1, y).
C28_ContextIsNeighbourhood ==
    [][\A a \in Actors :
        /\ (last'.op = "deploy_atron" /\ last'.actor = a
                /\ last'.err = "none")
            => context'[a] = ContextAt(icon', landing_zone)
        /\ \A direction \in Ways :
            RelocatingStep(a, direction)
            => context'[a] = ContextAt(icon', Towards(a, direction))]_vars

\* an actor stands next to the landing zone with a context that tells its
\* east from its west
C28_Witness ==
    \E a \in Actors :
        /\ last.op \in {"move_to", "tick"}
        /\ OnMap(a)
        /\ CoordOf(a) # landing_zone
        /\ context[a] = ContextAt(icon, CoordOf(a))
        /\ context[a].east # context[a].west

\* C29: an actor becomes deployed only by a successful deploy, and a deploy
\* of a deployed actor fails and changes neither its context nor any icon.
C29_DeployOnlyWhenUndeployed ==
    [][\A a \in Actors :
        /\ (~deployed(Cur, a) /\ deployed(Cur, a)')
            => (last'.op = "deploy_atron" /\ last'.actor = a
                    /\ last'.err = "none")
        /\ (deployed(Cur, a) /\ last'.op = "deploy_atron"
                /\ last'.actor = a)
            => (/\ last'.err # "none"
                /\ context'[a] = context[a]
                /\ icon' = icon)]_vars

(***************************************************************************)
(* Properties of the tick (Spec).                                          *)
(***************************************************************************)
\* the health a tile of icon i takes from the actor that meets it
Damage(i) == -health_cost(i)

\* C23: in a tick the acid damage comes first in a drone's move; a drone it
\* leaves with no health has its tile restored to the terrain, is
\* undeployed with payload 0 and nothing banked, and moves no more; a drone
\* it leaves alive goes on with the damage taken.
C23_AcidDamageComesFirst ==
    [][\A a \in {"miner", "scout"}, direction \in Directions :
        (/\ last'.op = "tick"
         /\ OnMap(a)
         /\ CoordOf(a) \in acid
         /\ Tick(OnlyAnswer(a, direction)))
        => IF AtLeastZero(health[a].value - Damage(ACID)) <= 0
           THEN /\ icon'[CoordOf(a)] = Terrain(CoordOf(a))
                /\ ~deployed(Cur, a)'
                /\ PayloadOf(Cur, a)' = 0
                /\ \A b \in Actors \ {a} : payload'[b] = payload[b]
                /\ minerals' = minerals
           ELSE health'[a].value
                    <= AtLeastZero(health[a].value - Damage(ACID))]_vars

(***************************************************************************)
(* Properties of the two drones (SpecFleet).                               *)
(***************************************************************************)
\* drone d answers a direction in which a free tile lies that no other
\* drone is heading for
FreeWay(d, action) ==
    /\ OnMap(d)
    /\ action[d] # "CENTER"
    /\ icon[Towards(d, action[d])] \in {DEPLOY_ZONE, ACID, EMPTY}
    /\ \A e \in Fleet \ {d} :
            OnMap(e) => Towards(e, action[e]) # Towards(d, action[d])

\* C24: in a tick every deployed drone gets its move, whatever happens to
\* the drones before it: a drone that answers a free way ends one step
\* along it.
C24_EveryDroneGetsItsMove ==
    [][\A action \in Answers(Fleet) :
        (/\ last'.op = "tick"
         /\ \A e \in Fleet : deployed(Cur, e) => OnMap(e)
         /\ Tick(action))
        => \A d \in Fleet :
            FreeWay(d, action) => CoordOf(d)' = Towards(d, action[d])]_vars

\* C30: undeploy of a deployed actor returns the payload it held and
\* leaves it undeployed with payload 0; undeploy of an actor that is not
\* deployed returns 0 and changes nothing.
C30_UndeployReturnsPayload ==
    [][\A a \in Actors :
        (last'.op = "undeploy" /\ last'.actor = a)
        => IF deployed(Cur, a)
           THEN /\ last'.err = "none"
                /\ last'.ret = PayloadOf(Cur, a)
                /\ ~deployed(Cur, a)'
                /\ PayloadOf(Cur, a)' = 0
           ELSE /\ last'.err = "none"
                /\ last'.ret = 0
                /\ EngineUnchanged]_vars

(***************************************************************************)
(* Properties of the paths found (SpecPath).                               *)
(***************************************************************************)
\* a cell the search may walk over
Pathable(c) == c \in MazeCoords /\ maze[c] \in NodeWeightIcons

\* the cost of entering cell c
EnterCost(c) == NODE_WEIGHTS(maze[c])

\* the cost of a path: that of every cell it enters, the first cell and a
\* cell it repeats on the spot entering nothing
RECURSIVE PathCost(_, _)
PathCost(path, i) ==
    IF i > Len(path) THEN 0
    ELSE (IF i > 1 /\ path[i] # path[i - 1] THEN EnterCost(path[i]) ELSE 0)
         + PathCost(path, i + 1)

\* more than any path costs
Unreached == 10 * Cardinality(MazeCoords) + 1

Least(numbers) == CHOOSE n \in numbers : \A m \in numbers : n <= m

\* the least costs from start after n more rounds of relaxing every cell
RECURSIVE LeastCosts(_, _)
LeastCosts(dist, n) ==
    IF n = 0 THEN dist
    ELSE LeastCosts(
            [c \in MazeCoords |->
                IF ~Pathable(c) THEN dist[c]
                ELSE Least({dist[c]} \cup
                        {dist[d] + EnterCost(c) :
                            d \in {e \in MazeCoords : Manhattan(e, c) = 1}})]
            @@ << >>,
            n - 1)

\* the least cost of a walk from start to end over pathable cells
MinCost(start, end) ==
    LeastCosts([c \in MazeCoords |-> IF c = start THEN 0 ELSE Unreached],
               Cardinality(MazeInside))[end]

\* C31: for a pathable target that can be reached from the start, the path
\* returned costs as little as any path from start to target over pathable
\* cells.
C31_PathCostIsMinimal ==
    (/\ route.done
     /\ Pathable(route.end)
     /\ MinCost(route.start, route.end) < Unreached)
    => (/\ route.err = "none"
        /\ route.path # <<>>
        /\ PathCost(route.path, 1) = MinCost(route.start, route.end))

\* the search of _dijkstra without its short-circuit: the goal is accepted
\* only when it is popped from the queue
RECURSIVE PoppedLoop(_, _, _)
PoppedLoop(grid, s, end) ==
    IF s.pqueue = {} \/ s.err # "none" THEN s
    ELSE LET entry == pqueue_get(s.pqueue)
             node == entry[2]
             s1 == [s EXCEPT !.pqueue = @ \ {entry}]
         IN  IF node \in s1.visited THEN PoppedLoop(grid, s1, end)
             ELSE IF node = end THEN [s1 EXCEPT !.path_found = TRUE]
             ELSE PoppedLoop(grid,
                    add_to_path(grid, [s1 EXCEPT !.visited = @ \cup {node}],
                                node, cardinals(node), 1),
                    end)

PoppedSearch(grid, start, end) ==
    LET s == PoppedLoop(grid, NewSearch(start), end)
    IN  IF s.err # "none" THEN [err |-> s.err, path |-> <<>>]
        ELSE IF s.path_found THEN build_final_path(start, end, s.parents_map)
        ELSE [err |-> "none", path |-> <<>>]

\* C32: the path the pathfinder returns costs what the path of the same
\* search without the short-circuit costs.
C32_ShortCircuitKeepsCost ==
    route.done
    => (/\ route.err = PoppedSearch(maze, route.start, route.end).err
        /\ PathCost(route.path, 1)
            = PathCost(PoppedSearch(maze, route.start, route.end).path, 1))

\* C35: a non-empty path returned starts at start, ends at the target,
\* holds no coordinate twice, steps between cardinal neighbours only and
\* crosses pathable cells only; for a target next to start it is
\* [start, target].
C35_PathIsWellFormed ==
    (route.done /\ route.path # <<>>)
    => (/\ route.path[1] = route.start
        /\ route.path[Len(route.path)] = route.end
        /\ \A i, j \in DOMAIN route.path :
                i # j => route.path[i] # route.path[j]
        /\ \A i \in 1 .. Len(route.path) - 1 :
                Manhattan(route.path[i], route.path[i + 1]) = 1
        /\ \A i \in 2 .. Len(route.path) - 1 : Pathable(route.path[i])
        /\ Manhattan(route.start, route.end) = 1
                => route.path = <<route.start, route.end>>)

\* C39: the pathfinder returns for every start and target: it expands no
\* coordinate twice, and the walk back over the parents meets no cycle and
\* no coordinate without a parent, and ends at start.
C39_PathfinderTerminates ==
    route.done
    => (/\ route.err = "none"
        /\ \A i, j \in DOMAIN route.expanded :
                i # j => route.expanded[i] # route.expanded[j]
        /\ route.path # <<>> => route.path[1] = route.start)

\* a search that expanded several cells and walked back over several parents
C39_Witness ==
    /\ route.done
    /\ route.err = "none"
    /\ Len(route.expanded) >= 4
    /\ Len(route.path) >= 4
    /\ route.path[1] = route.start

(***************************************************************************)
(* Properties of the map's actor icons and of its mineral ledger (Spec).   *)
(***************************************************************************)
\* the icons that stand for an actor
ActorIcons == {ATRON, SCOUT, MINER, PLAYER}

\* the actor stands on the tile at c: it is deployed and its context's
\* coordinate is c
StandsOn(a, c) ==
    deployed(Cur, a) /\ HasCoord(Cur, a) /\ TileAt(context[a].coord) = c

\* C36: the tiles showing an actor icon are exactly the tiles deployed actors
\* stand on, each showing the icon of the actor on it: no tile keeps the icon
\* of an actor that moved away, died, was undeployed or was removed
C36_ActorIconsAreTheActors ==
    /\ \A c \in Coords :
            icon[c] \in ActorIcons
            => \E a \in Actors : StandsOn(a, c) /\ AtronIcon(a) = icon[c]
    /\ \A a \in Actors :
            (deployed(Cur, a) /\ HasCoord(Cur, a)
             /\ AtronIcon(a) \in ActorIcons)
            => icon[TileAt(context[a].coord)] = AtronIcon(a)

\* the sum of the values of a function over the keys in keys
RECURSIVE SumOver(_, _)
SumOver(f, keys) ==
    IF keys = {} THEN 0
    ELSE LET k == CHOOSE k \in keys : TRUE
         IN  f[k] + SumOver(f, keys \ {k})

\* the units the ledger holds
LedgerTotal == SumOver(minerals, DOMAIN minerals)

\* the units the actors carry
PayloadTotal == SumOver([a \in Actors |-> PayloadOf(Cur, a)], Actors)

\* the units the step handed back: what undeploy or remove_drone returned
ReturnedBy(l) ==
    IF l.op \in {"undeploy", "remove_drone"} /\ l.err = "none" THEN l.ret
    ELSE 0

\* the step is a move_to of the player onto a tile showing a mineral
MovesOntoMineral ==
    /\ last'.op = "move_to"
    /\ OnMap(last'.actor)
    /\ icon[TileAt(last'.target)] = MINERAL

\* C37: minerals are never created (what the ledger holds, what the actors
\* carry and what the last call handed back never exceed the most a map
\* begins with); every entry the ledger keeps is at least 1; each mining
\* step lowers the ledger's total by exactly 1
C37_MineralsAreNeverCreated ==
    [][/\ LedgerTotal' + PayloadTotal' + ReturnedBy(last') <= MaxUnits
       /\ \A c \in DOMAIN minerals' : minerals'[c] >= 1
       /\ MovesOntoMineral => LedgerTotal' = LedgerTotal - 1]_vars

(***************************************************************************)
(* The state machine of a map made from scratch: MapData._no_file called   *)
(* with a width and a height of at least 3 and a density between 0 and 1,  *)
(* then one step per deposit and per acid tile it adds.  The densities are *)
(* the quarters 0, 1/4, 1/2, 3/4 and 1, written as their numerators.       *)
(***************************************************************************)
\* widest map generated
MaxWidth == 4
\* tallest map generated
MaxHeight == 7

Densities == {0, 1, 2, 3, 4}

\* MapData._create_box: the icons the tiles are made with
create_box(width, height) ==
    [c \in (0 .. width - 1) \X (0 .. height - 1) |->
        IF c[1] \in {0, width - 1} \/ c[2] \in {0, height - 1}
        THEN WALL ELSE EMPTY]

\* MapData._get_rand_coords: the search starts on Coordinate(0, 0), a wall,
\* and draws randint(1, width - 2), randint(1, height - 2) until the tile
\* drawn is Empty; these are the coordinates it can return, and with none
\* of them it draws for ever
get_rand_coords(g) ==
    {c \in (1 .. g.width - 2) \X (1 .. g.height - 2) : g.tiles[c] = EMPTY}

\* int(density * (total_coordinates - wall_count)), density in quarters
total_minerals(width, height, density) ==
    LET wall_count == ((width * 2) + (height * 2)) - 4
        total_coordinates == width * height
    IN  (density * (total_coordinates - wall_count)) \div 4

\* int(ACID_DENSITY * (total_coordinates - len(self._total_minerals)
\*                     - wall_count)), ACID_DENSITY being 0.1
total_acid(g) ==
    LET wall_count == ((g.width * 2) + (g.height * 2)) - 4
        total_coordinates == g.width * g.height
    IN  (total_coordinates - Cardinality(g.total_minerals) - wall_count)
            \div 10

\* the `for _ in range(...)` loops of _no_file: where the generation stands
\* once an addition is made, with g.left additions of its loop to go
no_file_loops(g) ==
    LET acids == [g EXCEPT !.phase = "acid", !.left = total_acid(g)]
    IN  IF g.phase = "minerals" /\ g.left = 0
        THEN IF acids.left = 0 THEN [acids EXCEPT !.phase = "done"]
             ELSE acids
        ELSE IF g.phase = "acid" /\ g.left = 0
        THEN [g EXCEPT !.phase = "done"]
        ELSE g

\* MapData._no_file, up to its first loop
NoFile(width, height, density) ==
    /\ gen.phase = "idle"
    /\ LET box == [gen EXCEPT !.width = width, !.height = height,
                              !.density = density,
                              !.tiles = create_box(width, height)]
       IN  \E coordinates \in get_rand_coords(box) :
            gen' = no_file_loops(
                    [box EXCEPT !.landing_zone = coordinates,
                                !.tiles[coordinates] = DEPLOY_ZONE,
                                !.phase = "minerals",
                                !.left = total_minerals(width, height,
                                                        density)])
    /\ UNCHANGED <<engineVars, counterVars, lookupVars, tileVars, pathVars,
                   pureVars, taskVars>>

\* MapData._add_mineral, or its search for a place going on for ever
AddMineral ==
    /\ gen.phase = "minerals"
    /\ IF get_rand_coords(gen) = {}
       THEN gen' = [gen EXCEPT !.phase = "searching"]
       ELSE \E coordinates \in get_rand_coords(gen) :
                gen' = no_file_loops(
                        [gen EXCEPT !.tiles[coordinates] = MINERAL,
                                    !.total_minerals = @ \cup {coordinates},
                                    !.left = @ - 1])
    /\ UNCHANGED <<engineVars, counterVars, lookupVars, tileVars, pathVars,
                   pureVars, taskVars>>

\* MapData._add_acid, or its search for a place going on for ever
AddAcid ==
    /\ gen.phase = "acid"
    /\ IF get_rand_coords(gen) = {}
       THEN gen' = [gen EXCEPT !.phase = "searching"]
       ELSE \E coordinates \in get_rand_coords(gen) :
                gen' = no_file_loops(
                        [gen EXCEPT !.tiles[coordinates] = ACID,
                                    !.left = @ - 1])
    /\ UNCHANGED <<engineVars, counterVars, lookupVars, tileVars, pathVars,
                   pureVars, taskVars>>

InitGen ==
    /\ InitIdleButPure
    /\ InitPureIdle

NextGen ==
    \/ \E width \in 3 .. MaxWidth, height \in 3 .. MaxHeight,
          density \in Densities : NoFile(width, height, density)
    \/ AddMineral
    \/ AddAcid

SpecGen == InitGen /\ [][NextGen]_vars

\* C40: the generation of a map ends for every width and height of at
\* least 3 and every density from 0 to 1: the search for an Empty cell
\* inside the walls is never started when there is none left
C40_GenerationTerminates == gen.phase # "searching"

(***************************************************************************)
(* The state machine of a drone left on acid: the engine with the miner in *)
(* play, whose policy answers CENTER whenever it stands on an acid tile,   *)
(* and a count of the moves it has made there in a row.  The Overlord      *)
(* deploys and recalls the miner only while it is not counted on acid; the *)
(* main loop runs a tick as long as the window is open.                    *)
(***************************************************************************)
\* most moves in a row counted on an acid tile
MaxStay == 15

\* the actor is deployed and stands on an acid tile
OnAcid(a) == deployed(Cur, a) /\ HasCoord(Cur, a) /\ CoordOf(a) \in acid

\* MainController.process_tick: map_data.tick(deployed drones), the miner
\* staying where it is once it stands on acid
AcidTick(action) ==
    /\ WithinOverdraft
    /\ stay < MaxStay
    /\ OnAcid("miner") => action["miner"] = "CENTER"
    /\ EngineBecomes(tick(Cur, deployed_drones(Cur), action), "tick", "none",
                     DEFAULT_COORDINATE)
    /\ stay' = IF OnAcid("miner") THEN stay + 1 ELSE 0

NextAcid ==
    \/ /\ stay = 0
       /\ DeployAtron("miner")
    \/ /\ stay = 0
       /\ RemoveDrone("miner")
    \/ \E action \in Answers({"miner"}) : AcidTick(action)

SpecAcid ==
    /\ Init
    /\ [][NextAcid]_vars
    /\ WF_vars(\E action \in Answers({"miner"}) : AcidTick(action))

\* the moves on an acid tile after which a drone of full health is to be
\* gone: ceil(health / damage) + 1
Deadline == (max_health + Damage(ACID) - 1) \div Damage(ACID) + 1

\* C38: a deployed drone that stands on acid and always answers CENTER is
\* in the end dead and removed: it is undeployed no later than its
\* (ceil(health / 3) + 1)-th move on that tile
C38_AcidKillsTheDroneThatStays ==
    stay >= Deadline => ~OnAcid("miner")

(***************************************************************************)
(* The state machine of the Overlord's mineral sets: a boxed map with its  *)
(* landing zone, walls and deposits, the minerals reported to the Overlord *)
(* by _track_mineral and the miner tasked with them by _task_miner.        *)
(***************************************************************************)
\* most deposits inside the Overlord's map
MaxMinerals == 2

\* Overlord._track_mineral
track_mineral_IgnoresTasked(t, i, coordinate) ==
    IF i = MINERAL THEN [t EXCEPT !.untasked = @ \cup {coordinate}]
    ELSE t

track_mineral(t, i, coordinate) ==
    IF i = MINERAL /\ coordinate \notin t.tasked
    THEN [t EXCEPT !.untasked = @ \cup {coordinate}]
    ELSE t

\* the path setter of Drone
set_path(t, new_path) ==
    [t EXCEPT !.path = new_path,
              !.state = IF Len(new_path) > 2 THEN "TRAVELING" ELSE "WAITING"]

\* Overlord._task_miner, mineral being what self._untasked_minerals.pop()
\* takes from the set; the pop of an empty set raises KeyError
task_miner(t, grid, mineral) ==
    IF ~t.on_map THEN [t EXCEPT !.err = "ValueError"]
    ELSE IF t.untasked = {} THEN [t EXCEPT !.err = "KeyError"]
    ELSE LET popped == [t EXCEPT !.untasked = @ \ {mineral},
                                 !.tasked = @ \cup {mineral}]
             answer == dijkstra(grid, t.landing_zone, mineral)
         IN  IF answer.err # "none" THEN [popped EXCEPT !.err = answer.err]
             ELSE set_path(popped, answer.path)

\* the call op(arg) took the Overlord and its miner to t
TaskBecomes(t, op, arg) ==
    /\ task' = [t EXCEPT !.op = op, !.arg = arg]
    /\ UNCHANGED <<maze, route, engineVars, counterVars, lookupVars, tileVars,
                   pureVars, genVars>>

\* Overlord.deploy: self._mining_map = map_window.map_data
OverlordDeploy ==
    /\ ~task.on_map
    /\ TaskBecomes([task EXCEPT !.on_map = TRUE, !.err = "none"], "deploy",
                   task.landing_zone)

\* the tiles reported to the Overlord: the deposits, and the landing zone
\* for a tile that shows no mineral
Reported == {c \in MazeInside : maze[c] \in {MINERAL, DEPLOY_ZONE}}

\* self._track_mineral(icon, coordinate) for a tile of the map
TrackMineral(coordinate) ==
    TaskBecomes(track_mineral([task EXCEPT !.err = "none"], maze[coordinate],
                              coordinate),
                "track_mineral", coordinate)

\* self._task_miner(miner)
TaskMiner ==
    IF task.untasked = {} \/ ~task.on_map
    THEN TaskBecomes(task_miner([task EXCEPT !.err = "none"], maze,
                                DEFAULT_COORDINATE),
                     "task_miner", DEFAULT_COORDINATE)
    ELSE \E mineral \in task.untasked :
            TaskBecomes(task_miner([task EXCEPT !.err = "none"], maze,
                                   mineral),
                        "task_miner", mineral)

\* a boxed map with a landing zone, walls and deposits, and an Overlord and
\* a miner just constructed
InitTask ==
    /\ InitEngineIdle
    /\ InitCounterIdle
    /\ InitLookupIdle
    /\ InitTileIdle
    /\ InitPureIdle
    /\ InitGenIdle
    /\ \E zone \in MazeInside :
       \E walls \in SUBSET (MazeInside \ {zone}) :
       \E deposits \in SUBSET (MazeInside \ ({zone} \cup walls)) :
        /\ Cardinality(walls) <= MaxObstacles
        /\ Cardinality(deposits) <= MaxMinerals
        /\ maze = [c \in MazeCoords |->
                    CASE c = zone -> DEPLOY_ZONE
                      [] c \in walls -> WALL
                      [] c \in deposits -> MINERAL
                      [] OTHER -> CharAt(MazeFile, c)]
        /\ task = [NewTask EXCEPT !.landing_zone = zone]
    /\ route = [start |-> DEFAULT_COORDINATE, end |-> DEFAULT_COORDINATE,
                done |-> FALSE, err |-> "none", path |-> <<>>,
                expanded |-> <<>>]

NextTask ==
    \/ OverlordDeploy
    \/ \E coordinate \in Reported : TrackMineral(coordinate)
    \/ TaskMiner

SpecTask == InitTask /\ [][NextTask]_vars

\* the step is a call of _task_miner that returned
TaskedStep == task'.op = "task_miner" /\ task'.err = "none"

\* C33: the untasked and the tasked minerals are disjoint after any calls of
\* _track_mineral and _task_miner; a call of _task_miner moves exactly one
\* coordinate from the untasked to the tasked ones; a tasked coordinate is
\* never put among the untasked ones again
C33_TaskedAndUntaskedStayApart ==
    [][/\ task'.untasked \cap task'.tasked = {}
       /\ task.tasked \subseteq task'.tasked
       /\ TaskedStep
          => \E mineral \in task.untasked :
                /\ task'.untasked = task.untasked \ {mineral}
                /\ task'.tasked = task.tasked \cup {mineral}
                /\ mineral \notin task.tasked]_vars

\* a mineral was tasked, reported again and left out of the untasked ones,
\* while another waits untasked
C33_Witness ==
    /\ task.op = "track_mineral"
    /\ task.arg \in task.tasked
    /\ task.untasked # {}

\* C34: a call of _task_miner that tasks a mineral leaves the miner a path
\* that is not empty and ends at that mineral, so no mineral out of reach
\* is marked tasked with an empty path; a call with no untasked mineral
\* changes neither set nor the miner's path
C34_TaskedMeansPathToIt ==
    [][/\ \A mineral \in task'.tasked \ task.tasked :
            /\ task'.path # <<>>
            /\ task'.path[Len(task'.path)] = mineral
       /\ (task'.op = "task_miner" /\ task.untasked = {})
          => (/\ task'.untasked = task.untasked
              /\ task'.tasked = task.tasked
              /\ task'.path = task.path)]_vars

====
